---- MODULE Spec2Model ----
(***************************************************************************)
(* determine-preset: which x265 preset produced a set of encoder flags.    *)
(* A model of src/src/lib.rs: parse_string, the preset catalog built by    *)
(* Determiner::new, and the Determiner's operations.                       *)
(*                                                                         *)
(* Strings.  A Rust string is modelled by its sequence of lexemes: each    *)
(* lexeme is a maximal run of whitespace, a single '=', or a maximal run   *)
(* of other characters.  Splitting on whitespace and on '=' are computed   *)
(* on that sequence; the pieces are TLA+ strings, so lengths and           *)
(* concatenations are those of the real text (all of it ASCII).            *)
(***************************************************************************)
EXTENDS Integers, Sequences, FiniteSets, TLC

\* lib.rs:47: the string literal handed to parse_string for "ultrafast".
Lit_ultrafast ==
    <<
       "ctu", "=", "32", " ", "min-cu-size", "=", "16", " ",
       "bframes", "=", "3", " ", "b-adapt", "=", "0", " ",
       "rc-lookahead", "=", "5", " ", "lookahead-slices", "=", "8", " ",
       "scenecut", "=", "0", " ", "ref", "=", "1", " ",
       "limit-refs", "=", "0", " ", "me", "=", "dia", " ",
       "merange", "=", "57", " ", "subme", "=", "0", " ",
       "rect", "=", "0", " ", "amp", "=", "0", " ",
       "limit-modes", "=", "0", " ", "max-merge", "=", "2", " ",
       "early-skip", "=", "1", " ", "recursion-skip", "=", "1", " ",
       "fast-intra", "=", "1", " ", "b-intra", "=", "0", " ",
       "sao", "=", "0", " ", "signhide", "=", "0", " ",
       "weightp", "=", "0", " ", "weightb", "=", "0", " ",
       "aq-mode", "=", "0", " ", "cuTree", "=", "1", " ",
       "rdLevel", "=", "2", " ", "rdoq-level", "=", "0", " ",
       "tu-intra", "=", "1", " ", "tu-inter", "=", "1", " ",
       "limit-tu", "=", "0" >>

\* lib.rs:51: the string literal handed to parse_string for "superfast".
Lit_superfast ==
    <<
       "ctu", "=", "32", " ", "min-cu-size", "=", "8", " ",
       "bframes", "=", "3", " ", "b-adapt", "=", "0", " ",
       "rc-lookahead", "=", "10", " ", "lookahead-slices", "=", "8", " ",
       "scenecut", "=", "40", " ", "ref", "=", "1", " ",
       "limit-refs", "=", "0", " ", "me", "=", "hex", " ",
       "merange", "=", "57", " ", "subme", "=", "1", " ",
       "rect", "=", "0", " ", "amp", "=", "0", " ",
       "limit-modes", "=", "0", " ", "max-merge", "=", "2", " ",
       "early-skip", "=", "1", " ", "recursion-skip", "=", "1", " ",
       "fast-intra", "=", "1", " ", "b-intra", "=", "0", " ",
       "sao", "=", "0", " ", "signhide", "=", "1", " ",
       "weightp", "=", "0", " ", "weightb", "=", "0", " ",
       "aq-mode", "=", "0", " ", "cuTree", "=", "1", " ",
       "rdLevel", "=", "2", " ", "rdoq-level", "=", "0", " ",
       "tu-intra", "=", "1", " ", "tu-inter", "=", "1", " ",
       "limit-tu", "=", "0" >>

\* lib.rs:55: the string literal handed to parse_string for "veryfast".
Lit_veryfast ==
    <<
       "ctu", "=", "64", " ", "min-cu-size", "=", "8", " ",
       "bframes", "=", "4", " ", "b-adapt", "=", "0", " ",
       "rc-lookahead", "=", "15", " ", "lookahead-slices", "=", "8", " ",
       "scenecut", "=", "40", " ", "ref", "=", "2", " ",
       "limit-refs", "=", "3", " ", "me", "=", "hex", " ",
       "merange", "=", "57", " ", "subme", "=", "1", " ",
       "rect", "=", "0", " ", "amp", "=", "0", " ",
       "limit-modes", "=", "0", " ", "max-merge", "=", "2", " ",
       "early-skip", "=", "1", " ", "recursion-skip", "=", "1", " ",
       "fast-intra", "=", "1", " ", "b-intra", "=", "0", " ",
       "sao", "=", "1", " ", "signhide", "=", "1", " ",
       "weightp", "=", "1", " ", "weightb", "=", "0", " ",
       "aq-mode", "=", "2", " ", "cuTree", "=", "1", " ",
       "rdLevel", "=", "2", " ", "rdoq-level", "=", "0", " ",
       "tu-intra", "=", "1", " ", "tu-inter", "=", "1", " ",
       "limit-tu", "=", "0" >>

\* lib.rs:59: the string literal handed to parse_string for "faster".
Lit_faster ==
    <<
       "ctu", "=", "64", " ", "min-cu-size", "=", "8", " ",
       "bframes", "=", "4", " ", "b-adapt", "=", "0", " ",
       "rc-lookahead", "=", "15", " ", "lookahead-slices", "=", "8", " ",
       "scenecut", "=", "40", " ", "ref", "=", "2", " ",
       "limit-refs", "=", "3", " ", "me", "=", "hex", " ",
       "merange", "=", "57", " ", "subme", "=", "2", " ",
       "rect", "=", "0", " ", "amp", "=", "0", " ",
       "limit-modes", "=", "0", " ", "max-merge", "=", "2", " ",
       "early-skip", "=", "1", " ", "recursion-skip", "=", "1", " ",
       "fast-intra", "=", "1", " ", "b-intra", "=", "0", " ",
       "sao", "=", "1", " ", "signhide", "=", "1", " ",
       "weightp", "=", "1", " ", "weightb", "=", "0", " ",
       "aq-mode", "=", "2", " ", "cuTree", "=", "1", " ",
       "rdLevel", "=", "2", " ", "rdoq-level", "=", "0", " ",
       "tu-intra", "=", "1", " ", "tu-inter", "=", "1", " ",
       "limit-tu", "=", "0" >>

\* lib.rs:63: the string literal handed to parse_string for "fast".
Lit_fast ==
    <<
       "ctu", "=", "64", " ", "min-cu-size", "=", "8", " ",
       "bframes", "=", "4", " ", "b-adapt", "=", "0", " ",
       "rc-lookahead", "=", "15", " ", "lookahead-slices", "=", "8", " ",
       "scenecut", "=", "40", " ", "ref", "=", "3", " ",
       "limit-refs", "=", "3", " ", "me", "=", "hex", " ",
       "merange", "=", "57", " ", "subme", "=", "2", " ",
       "rect", "=", "0", " ", "amp", "=", "0", " ",
       "limit-modes", "=", "0", " ", "max-merge", "=", "2", " ",
       "early-skip", "=", "0", " ", "recursion-skip", "=", "1", " ",
       "fast-intra", "=", "1", " ", "b-intra", "=", "0", " ",
       "sao", "=", "1", " ", "signhide", "=", "1", " ",
       "weightp", "=", "1", " ", "weightb", "=", "0", " ",
       "aq-mode", "=", "2", " ", "cuTree", "=", "1", " ",
       "rdLevel", "=", "2", " ", "rdoq-level", "=", "0", " ",
       "tu-intra", "=", "1", " ", "tu-inter", "=", "1", " ",
       "limit-tu", "=", "0" >>

\* lib.rs:67: the string literal handed to parse_string for "medium".
Lit_medium ==
    <<
       "ctu", "=", "64", " ", "min-cu-size", "=", "8", " ",
       "bframes", "=", "4", " ", "b-adapt", "=", "2", " ",
       "rc-lookahead", "=", "20", " ", "lookahead-slices", "=", "8", " ",
       "scenecut", "=", "40", " ", "ref", "=", "3", " ",
       "limit-refs", "=", "1", " ", "me", "=", "hex", " ",
       "merange", "=", "57", " ", "subme", "=", "2", " ",
       "rect", "=", "0", " ", "amp", "=", "0", " ",
       "limit-modes", "=", "0", " ", "max-merge", "=", "3", " ",
       "early-skip", "=", "1", " ", "recursion-skip", "=", "1", " ",
       "fast-intra", "=", "0", " ", "b-intra", "=", "1", " ",
       "sao", "=", "1", " ", "signhide", "=", "1", " ",
       "weightp", "=", "1", " ", "weightb", "=", "0", " ",
       "aq-mode", "=", "2", " ", "cuTree", "=", "1", " ",
       "rdLevel", "=", "3", " ", "rdoq-level", "=", "0", " ",
       "tu-intra", "=", "1", " ", "tu-inter", "=", "1", " ",
       "limit-tu", "=", "0" >>

\* lib.rs:72: the string literal handed to parse_string for "slow".
Lit_slow ==
    <<
       "ctu", "=", "64", " ", "min-cu-size", "=", "8", " ",
       "bframes", "=", "4", " ", "b-adapt", "=", "2", " ",
       "rc-lookahead", "=", "25", " ", "lookahead-slices", "=", "4", " ",
       "scenecut", "=", "40", " ", "ref", "=", "4", " ",
       "limit-refs", "=", "3", " ", "me", "=", "star", " ",
       "merange", "=", "57", " ", "subme", "=", "3", " ",
       "rect", "=", "1", " ", "amp", "=", "0", " ",
       "limit-modes", "=", "1", " ", "max-merge", "=", "3", " ",
       "early-skip", "=", "0", " ", "recursion-skip", "=", "1", " ",
       "fast-intra", "=", "0", " ", "b-intra", "=", "0", " ",
       "sao", "=", "1", " ", "signhide", "=", "1", " ",
       "weightp", "=", "1", " ", "weightb", "=", "0", " ",
       "aq-mode", "=", "2", " ", "cuTree", "=", "1", " ",
       "rdLevel", "=", "4", " ", "rdoq-level", "=", "2", " ",
       "tu-intra", "=", "1", " ", "tu-inter", "=", "1", " ",
       "limit-tu", "=", "0" >>

\* lib.rs:76: the string literal handed to parse_string for "slower".
Lit_slower ==
    <<
       "ctu", "=", "64", " ", "min-cu-size", "=", "8", " ",
       "bframes", "=", "8", " ", "b-adapt", "=", "2", " ",
       "rc-lookahead", "=", "40", " ", "lookahead-slices", "=", "1", " ",
       "scenecut", "=", "40", " ", "ref", "=", "5", " ",
       "limit-refs", "=", "1", " ", "me", "=", "star", " ",
       "merange", "=", "57", " ", "subme", "=", "4", " ",
       "rect", "=", "1", " ", "amp", "=", "1", " ",
       "limit-modes", "=", "1", " ", "max-merge", "=", "4", " ",
       "early-skip", "=", "0", " ", "recursion-skip", "=", "1", " ",
       "fast-intra", "=", "0", " ", "b-intra", "=", "1", " ",
       "sao", "=", "1", " ", "signhide", "=", "1", " ",
       "weightp", "=", "1", " ", "weightb", "=", "1", " ",
       "aq-mode", "=", "2", " ", "cuTree", "=", "1", " ",
       "rdLevel", "=", "6", " ", "rdoq-level", "=", "2", " ",
       "tu-intra", "=", "3", " ", "tu-inter", "=", "3", " ",
       "limit-tu", "=", "4" >>

\* lib.rs:80: the string literal handed to parse_string for "veryslow".
Lit_veryslow ==
    <<
       "ctu", "=", "64", " ", "min-cu-size", "=", "8", " ",
       "bframes", "=", "8", " ", "b-adapt", "=", "2", " ",
       "rc-lookahead", "=", "40", " ", "lookahead-slices", "=", "1", " ",
       "scenecut", "=", "40", " ", "ref", "=", "5", " ",
       "limit-refs", "=", "0", " ", "me", "=", "star", " ",
       "merange", "=", "57", " ", "subme", "=", "4", " ",
       "rect", "=", "1", " ", "amp", "=", "1", " ",
       "limit-modes", "=", "0", " ", "max-merge", "=", "5", " ",
       "early-skip", "=", "0", " ", "recursion-skip", "=", "1", " ",
       "fast-intra", "=", "0", " ", "b-intra", "=", "1", " ",
       "sao", "=", "1", " ", "signhide", "=", "1", " ",
       "weightp", "=", "1", " ", "weightb", "=", "1", " ",
       "aq-mode", "=", "2", " ", "cuTree", "=", "1", " ",
       "rdLevel", "=", "6", " ", "rdoq-level", "=", "2", " ",
       "tu-intra", "=", "3", " ", "tu-inter", "=", "3", " ",
       "limit-tu", "=", "0" >>

\* lib.rs:84: the string literal handed to parse_string for "placebo".
Lit_placebo ==
    <<
       "ctu", "=", "64", " ", "min-cu-size", "=", "8", " ",
       "bframes", "=", "8", " ", "b-adapt", "=", "2", " ",
       "rc-lookahead", "=", "60", " ", "lookahead-slices", "=", "1", " ",
       "scenecut", "=", "40", " ", "ref", "=", "5", " ",
       "limit-refs", "=", "0", " ", "me", "=", "star", " ",
       "merange", "=", "92", " ", "subme", "=", "5", " ",
       "rect", "=", "1", " ", "amp", "=", "1", " ",
       "limit-modes", "=", "0", " ", "max-merge", "=", "5", " ",
       "early-skip", "=", "0", " ", "recursion-skip", "=", "0", " ",
       "fast-intra", "=", "0", " ", "b-intra", "=", "1", " ",
       "sao", "=", "1", " ", "signhide", "=", "1", " ",
       "weightp", "=", "1", " ", "weightb", "=", "1", " ",
       "aq-mode", "=", "2", " ", "cuTree", "=", "1", " ",
       "rdLevel", "=", "6", " ", "rdoq-level", "=", "2", " ",
       "tu-intra", "=", "4", " ", "tu-inter", "=", "4", " ",
       "limit-tu", "=", "0" >>

\* lib.rs:308: the flag dump of test_encoding_params.
TestDump ==
    <<
       "Encoding", " ", "settings", "                        ", ":", " ", "cpuid", "=", "1111039", " ",
       "/", " ", "frame-threads", "=", "4", " ", "/", " ", "wpp", " ",
       "/", " ", "no-pmode", " ", "/", " ", "no-pme", " ", "/", " ",
       "no-psnr", " ", "/", " ", "no-ssim", " ", "/", " ", "log-level", "=",
       "2", " ", "/", " ", "input-csp", "=", "1", " ", "/", " ",
       "input-res", "=", "1860x1080", " ", "/", " ", "interlace", "=", "0", " ",
       "/", " ", "total-frames", "=", "0", " ", "/", " ", "level-idc", "=",
       "0", " ", "/", " ", "high-tier", "=", "1", " ", "/", " ",
       "uhd-bd", "=", "0", " ", "/", " ", "ref", "=", "5", " ",
       "/", " ", "no-allow-non-conformance", " ", "/", " ", "no-repeat-headers", " ", "/", " ",
       "annexb", " ", "/", " ", "no-aud", " ", "/", " ", "no-eob", " ",
       "/", " ", "no-eos", " ", "/", " ", "no-hrd", " ", "/", " ",
       "info", " ", "/", " ", "hash", "=", "0", " ", "/", " ",
       "temporal-layers", "=", "0", " ", "/", " ", "open-gop", " ", "/", " ",
       "min-keyint", "=", "25", " ", "/", " ", "keyint", "=", "250", " ",
       "/", " ", "gop-lookahead", "=", "0", " ", "/", " ", "bframes", "=",
       "8", " ", "/", " ", "b-adapt", "=", "2", " ", "/", " ",
       "b-pyramid", " ", "/", " ", "bframe-bias", "=", "0", " ", "/", " ",
       "rc-lookahead", "=", "40", " ", "/", " ", "lookahead-slices", "=", "0", " ",
       "/", " ", "scenecut", "=", "40", " ", "/", " ", "no-hist-scenecut", " ",
       "/", " ", "radl", "=", "0", " ", "/", " ", "no-splice", " ",
       "/", " ", "no-intra-refresh", " ", "/", " ", "ctu", "=", "64", " ",
       "/", " ", "min-cu-size", "=", "8", " ", "/", " ", "rect", " ",
       "/", " ", "amp", " ", "/", " ", "max-tu-size", "=", "32", " ",
       "/", " ", "tu-inter-depth", "=", "3", " ", "/", " ", "tu-intra-depth", "=",
       "3", " ", "/", " ", "limit-tu", "=", "0", " ", "/", " ",
       "rdoq-level", "=", "2", " ", "/", " ", "dynamic-rd", "=", "0.00", " ",
       "/", " ", "no-ssim-rd", " ", "/", " ", "signhide", " ", "/", " ",
       "no-tskip", " ", "/", " ", "nr-intra", "=", "0", " ", "/", " ",
       "nr-inter", "=", "0", " ", "/", " ", "no-constrained-intra", " ", "/", " ",
       "strong-intra-smoothing", " ", "/", " ", "max-merge", "=", "5", " ", "/", " ",
       "limit-refs", "=", "0", " ", "/", " ", "no-limit-modes", " ", "/", " ",
       "me", "=", "3", " ", "/", " ", "subme", "=", "4", " ",
       "/", " ", "merange", "=", "57", " ", "/", " ", "temporal-mvp", " ",
       "/", " ", "no-frame-dup", " ", "/", " ", "no-hme", " ", "/", " ",
       "weightp", " ", "/", " ", "weightb", " ", "/", " ", "no-analyze-src-pics", " ",
       "/", " ", "deblock", "=", "0:0", " ", "/", " ", "sao", " ",
       "/", " ", "no-sao-non-deblock", " ", "/", " ", "rd", "=", "6", " ",
       "/", " ", "selective-sao", "=", "4", " ", "/", " ", "no-early-skip", " ",
       "/", " ", "rskip", " ", "/", " ", "no-fast-intra", " ", "/", " ",
       "no-tskip-fast", " ", "/", " ", "no-cu-lossless", " ", "/", " ", "b-intra", " ",
       "/", " ", "no-splitrd-skip", " ", "/", " ", "rdpenalty", "=", "0", " ",
       "/", " ", "psy-rd", "=", "2.00", " ", "/", " ", "psy-rdoq", "=",
       "1.00", " ", "/", " ", "no-rd-refine", " ", "/", " ", "no-lossless", " ",
       "/", " ", "cbqpoffs", "=", "0", " ", "/", " ", "crqpoffs", "=",
       "0", " ", "/", " ", "rc", "=", "crf", " ", "/", " ",
       "crf", "=", "23.0", " ", "/", " ", "qcomp", "=", "0.60", " ",
       "/", " ", "qpstep", "=", "4", " ", "/", " ", "stats-write", "=",
       "0", " ", "/", " ", "stats-read", "=", "0", " ", "/", " ",
       "ipratio", "=", "1.40", " ", "/", " ", "pbratio", "=", "1.30", " ",
       "/", " ", "aq-mode", "=", "2", " ", "/", " ", "aq-strength", "=",
       "1.00", " ", "/", " ", "cutree", " ", "/", " ", "zone-count", "=",
       "0", " ", "/", " ", "no-strict-cbr", " ", "/", " ", "qg-size", "=",
       "32", " ", "/", " ", "no-rc-grain", " ", "/", " ", "qpmax", "=",
       "69", " ", "/", " ", "qpmin", "=", "0", " ", "/", " ",
       "no-const-vbv", " ", "/", " ", "sar", "=", "0", " ", "/", " ",
       "overscan", "=", "0", " ", "/", " ", "videoformat", "=", "5", " ",
       "/", " ", "range", "=", "0", " ", "/", " ", "colorprim", "=",
       "1", " ", "/", " ", "transfer", "=", "1", " ", "/", " ",
       "colormatrix", "=", "1", " ", "/", " ", "chromaloc", "=", "1", " ",
       "/", " ", "chromaloc-top", "=", "0", " ", "/", " ", "chromaloc-bottom", "=",
       "0", " ", "/", " ", "display-window", "=", "0", " ", "/", " ",
       "cll", "=", "0,0", " ", "/", " ", "min-luma", "=", "0", " ",
       "/", " ", "max-luma", "=", "1023", " ", "/", " ", "log2-max-poc-lsb", "=",
       "8", " ", "/", " ", "vui-timing-info", " ", "/", " ", "vui-hrd-info", " ",
       "/", " ", "slices", "=", "1", " ", "/", " ", "no-opt-qp-pps", " ",
       "/", " ", "no-opt-ref-list-length-pps", " ", "/", " ", "no-multi-pass-opt-rps", " ", "/", " ",
       "scenecut-bias", "=", "0.05", " ", "/", " ", "no-opt-cu-delta-qp", " ", "/", " ",
       "no-aq-motion", " ", "/", " ", "no-hdr10", " ", "/", " ", "no-hdr10-opt", " ",
       "/", " ", "no-dhdr10-opt", " ", "/", " ", "no-idr-recovery-sei", " ", "/", " ",
       "analysis-reuse-level", "=", "0", " ", "/", " ", "analysis-save-reuse-level", "=", "0", " ",
       "/", " ", "analysis-load-reuse-level", "=", "0", " ", "/", " ", "scale-factor", "=",
       "0", " ", "/", " ", "refine-intra", "=", "0", " ", "/", " ",
       "refine-inter", "=", "0", " ", "/", " ", "refine-mv", "=", "1", " ",
       "/", " ", "refine-ctu-distortion", "=", "0", " ", "/", " ", "no-limit-sao", " ",
       "/", " ", "ctu-info", "=", "0", " ", "/", " ", "no-lowpass-dct", " ",
       "/", " ", "refine-analysis-type", "=", "0", " ", "/", " ", "copy-pic", "=",
       "1", " ", "/", " ", "max-ausize-factor", "=", "1.0", " ", "/", " ",
       "no-dynamic-refine", " ", "/", " ", "no-single-sei", " ", "/", " ", "no-hevc-aq", " ",
       "/", " ", "no-svt", " ", "/", " ", "no-field", " ", "/", " ",
       "qp-adaptation-range", "=", "1.00", " ", "/", " ", "scenecut-aware-qp", "=", "0conformance-window-offsets", " ",
       "/", " ", "right", "=", "0", " ", "/", " ", "bottom", "=",
       "0", " ", "/", " ", "decoder-max-rate", "=", "0", " ", "/", " ",
       "no-vbv-live-multi-pass", " ", "/", " ", "no-mcstf", " ", "/", " ", "no-sbrc" >>

\* The whitespace lexemes occurring in the literals and inputs.
WhitespaceRuns == {" ", "                        "}

IsWhitespace(x) == x \in WhitespaceRuns

\* The end of the run of non-whitespace lexemes that starts at i.
TokenEnd(s, i) ==
    CHOOSE j \in i..Len(s) :
        /\ \A k \in i..j : ~IsWhitespace(s[k])
        /\ j = Len(s) \/ IsWhitespace(s[j + 1])

RECURSIVE TokensIn(_, _, _)
\* The tokens of s that start in lo..hi, in the order of the text.
TokensIn(s, lo, hi) ==
    IF lo > hi
    THEN <<>>
    ELSE IF lo = hi
         THEN IF ~IsWhitespace(s[lo]) /\ (lo = 1 \/ IsWhitespace(s[lo - 1]))
              THEN <<SubSeq(s, lo, TokenEnd(s, lo))>>
              ELSE <<>>
         ELSE LET mid == (lo + hi) \div 2
              IN  TokensIn(s, lo, mid) \o TokensIn(s, mid + 1, hi)

\* str::split_whitespace: the non-empty maximal runs of non-whitespace.
split_whitespace(s) == TokensIn(s, 1, Len(s))

RECURSIVE split_from(_, _, _)
\* str::split('=') from lexeme i on, cur being the part read so far.
split_from(pair, i, cur) ==
    IF i > Len(pair)
    THEN <<cur>>
    ELSE IF pair[i] = "="
         THEN <<cur>> \o split_from(pair, i + 1, "")
         ELSE split_from(pair, i + 1, cur \o pair[i])

\* pair.split('='): n separators give n + 1 parts, empty parts included.
split(pair) == split_from(pair, 1, "")

\* The closure of filter_map: Some((name, value)) when parts.next() succeeds
\* twice, None (here <<>>) otherwise.
pair_of(pair) ==
    LET parts == split(pair)
    IN  IF Len(parts) >= 2 THEN <<parts[1], parts[2]>> ELSE <<>>

\* Iterator::collect into a HashMap: every pair is inserted in order, so a
\* key's value is that of its last pair.
collect(pairs) ==
    LET idx  == {i \in 1..Len(pairs) : pairs[i] # <<>>}
        keys == {pairs[i][1] : i \in idx}
        last(k) == CHOOSE i \in idx :
                      /\ pairs[i][1] = k
                      /\ \A j \in idx : pairs[j][1] = k => j <= i
    IN  [k \in keys |-> pairs[last(k)][2]]

parse_string(inp) ==
    LET toks == split_whitespace(inp)
    IN  collect([i \in 1..Len(toks) |-> pair_of(toks[i])])

EmptyMap == [x \in {} |-> ""]

\* Iterator::collect into a HashMap: the map is built, entry by entry.
collected(f) == f @@ EmptyMap

(***************************************************************************)
(* The Determiner and its environment.                                     *)
(***************************************************************************)
VARIABLES
    presets,    \* self.presets: Vec<(String, HashMap<String, String>)>
    verbose,    \* self.cli.verbose
    color,      \* self.cli.color: "Auto", "Always" or "Never"
    tty,        \* whether standard output is a terminal (atty::is)
    op,         \* the operation called last, "idle" before any call
    input,      \* its &str argument, as lexemes
    settings,   \* the settings map it worked on
    matching,   \* determine_preset's local matching_presets
    table,      \* partially_matching_presets' finished rows and their parameters
    result,     \* what the call returned, or the panic that ended it
    calls       \* calls made since the caller last dropped the result

vars == <<presets, verbose, color, tty, op, input, settings, matching, table,
          result, calls>>

\* Determiner::new: the catalog, in declaration order.
NewPresets ==
    << <<"ultrafast", parse_string(Lit_ultrafast)>>,
       <<"superfast", parse_string(Lit_superfast)>>,
       <<"veryfast",  parse_string(Lit_veryfast)>>,
       <<"faster",    parse_string(Lit_faster)>>,
       <<"fast",      parse_string(Lit_fast)>>,
       <<"medium",    parse_string(Lit_medium)>>,
       <<"slow",      parse_string(Lit_slow)>>,
       <<"slower",    parse_string(Lit_slower)>>,
       <<"veryslow",  parse_string(Lit_veryslow)>>,
       <<"placebo",   parse_string(Lit_placebo)>> >>

\* #[derive(Default)] on Determiner: Vec::default(), the empty catalog.
DefaultPresets == <<>>

\* Values a call returns.  fmt is the literal text of the format string (or
\* the panic message), arg the formatted argument; vec and map carry the
\* values of the calls that return a Vec or a HashMap.
Value(kind, fmt, arg, vec, map) ==
    [kind |-> kind, fmt |-> fmt, arg |-> arg, vec |-> vec, map |-> map]

Ok(name)       == Value("Ok", "", name, <<>>, EmptyMap)
Err(fmt, arg)  == Value("Err", fmt, arg, <<>>, EmptyMap)
Panic(msg)     == Value("Panic", msg, "", <<>>, EmptyMap)
Text(s)        == Value("String", "", s, <<>>, EmptyMap)
VecOf(v)       == Value("Vec", "", "", v, EmptyMap)
MapOf(m)       == Value("Map", "", "", <<>>, m)
NoValue        == Value("None", "", "", <<>>, EmptyMap)

\* The text of an Ok, an Err or a String.
Message(r) == r.fmt \o r.arg

NoTable == [rows |-> <<>>, params |-> <<>>]

(***************************************************************************)
(* Debug formatting ({:?}) of Vec<String> and Vec<(String, usize)>.        *)
(***************************************************************************)
DebugStr(s) == "\"" \o s \o "\""

DebugPair(p) == "(" \o DebugStr(p[1]) \o ", " \o ToString(p[2]) \o ")"

RECURSIVE JoinFrom(_, _)
JoinFrom(items, i) ==
    IF i > Len(items) THEN ""
    ELSE (IF i > 1 THEN ", " ELSE "") \o items[i] \o JoinFrom(items, i + 1)

DebugList(items) == "[" \o JoinFrom(items, 1) \o "]"

DebugNames(v) == DebugList([i \in 1..Len(v) |-> DebugStr(v[i])])

DebugRanking(v) == DebugList([i \in 1..Len(v) |-> DebugPair(v[i])])

(***************************************************************************)
(* Matcher and ranking.                                                    *)
(***************************************************************************)
\* Mutant: one agreeing or missing key is enough (any for all).
preset_matches_any(input_settings, preset_settings) ==
    \E key \in DOMAIN input_settings :
        \/ key \notin DOMAIN preset_settings
        \/ preset_settings[key] = input_settings[key]

\* Mutant: a key the preset lacks counts as a mismatch.
preset_matches_strict(input_settings, preset_settings) ==
    \A key \in DOMAIN input_settings :
        /\ key \in DOMAIN preset_settings
        /\ preset_settings[key] = input_settings[key]

\* Determiner::preset_matches.
preset_matches(input_settings, preset_settings) ==
    \A key \in DOMAIN input_settings :
        \/ key \notin DOMAIN preset_settings
        \/ preset_settings[key] = input_settings[key]

\* The closure of closest_matches: the keys of settings whose value the
\* preset maps identically.
match_count(s, preset_settings) ==
    Cardinality({key \in DOMAIN s :
                    /\ key \in DOMAIN preset_settings
                    /\ preset_settings[key] = s[key]})

\* One step of a stable sort: e goes after every element whose key is not
\* greater than its own.
insert_stable(sorted, e) ==
    LET n == Cardinality({i \in 1..Len(sorted) : sorted[i][2] <= e[2]})
    IN  SubSeq(sorted, 1, n) \o <<e>> \o SubSeq(sorted, n + 1, Len(sorted))

RECURSIVE sort_by_key(_)
\* slice::sort_by_key on the match count: stable, ascending.
sort_by_key(v) ==
    IF v = <<>> THEN <<>>
    ELSE insert_stable(sort_by_key(SubSeq(v, 1, Len(v) - 1)), v[Len(v)])

\* Vec::reverse.
reverse(v) == [i \in 1..Len(v) |-> v[Len(v) + 1 - i]]

\* Mutant: a stable sort by descending count, without the reverse.
closest_matches_desc(s) ==
    LET matches == [i \in 1..Len(presets) |->
                       <<presets[i][1], 0 - match_count(s, presets[i][2])>>]
        sorted  == sort_by_key(matches)
    IN  [i \in 1..Len(sorted) |-> <<sorted[i][1], 0 - sorted[i][2]>>]

\* Determiner::closest_matches.
closest_matches(s) ==
    LET matches == [i \in 1..Len(presets) |->
                       <<presets[i][1], match_count(s, presets[i][2])>>]
    IN  reverse(sort_by_key(matches))

(***************************************************************************)
(* The diff table.                                                         *)
(***************************************************************************)
\* The iteration orders of a std HashMap with key set S.  Each HashMap is
\* built with its own RandomState, so a map built during a call may be
\* iterated in any order, and differently from one call to the next.
IterOrders(S) ==
    {f \in [1..Cardinality(S) -> S] :
        \A i, j \in 1..Cardinality(S) : f[i] = f[j] => i = j}

Max(S) == CHOOSE x \in S : \A y \in S : y <= x

max(a, b) == IF a >= b THEN a ELSE b

RECURSIVE repeat(_, _)
\* str::repeat.
repeat(c, n) == IF n <= 0 THEN "" ELSE c \o repeat(c, n - 1)

RECURSIVE concat(_, _)
concat(strs, i) == IF i > Len(strs) THEN "" ELSE strs[i] \o concat(strs, i + 1)

\* The escape character of the colour sequences, written out.
Esc == "\\x1b"

\* colored::Colorize.
bold(s)  == Esc \o "[1m" \o s \o Esc \o "[0m"
green(s) == Esc \o "[32m" \o s \o Esc \o "[0m"

use_color ==
    CASE color = "Auto"   -> tty
      [] color = "Always" -> TRUE
      [] color = "Never"  -> FALSE

\* preset_enc_params after the filter of lines 144-148 (a Vec used only
\* through contains); the catalog is not empty here.
preset_enc_params(s) ==
    LET all == DOMAIN presets[1][2]
    IN  IF verbose < 2 THEN {p \in all : p \in DOMAIN s} ELSE all

\* input_keys after the filter of lines 149-153.
input_keys(s) ==
    IF verbose < 2
    THEN {p \in DOMAIN s : p \in preset_enc_params(s)}
    ELSE DOMAIN s

\* The names of the three closest presets (line 156).
preset_names(s) ==
    LET ranked == closest_matches(s)
    IN  {ranked[i][1] : i \in 1..(IF Len(ranked) < 3 THEN Len(ranked) ELSE 3)}

\* The values of the catalog's preset called name (the last one, should
\* several share the name: they are collected into a HashMap).
values_of(name) ==
    LET i == CHOOSE i \in 1..Len(presets) :
                 /\ presets[i][1] = name
                 /\ \A j \in 1..Len(presets) : presets[j][1] = name => j <= i
    IN  presets[i][2]

\* The HashMap `presets` of lines 158-165: the presets named in names, each
\* with its values restricted to params.
shown_presets(names, params) ==
    collected(
        [name \in {presets[i][1] : i \in {j \in 1..Len(presets) : presets[j][1] \in names}} |->
            collected([p \in {q \in DOMAIN values_of(name) : q \in params} |->
                          values_of(name)[p]])])

\* The HashMap `settings` of line 166.
shown_settings(s) == collected([p \in input_keys(s) |-> s[p]])

\* The keys of the two HashMaps a call iterates; none when the call
\* panics before building them.
RowKeys(s)    == IF presets = <<>> THEN {} ELSE input_keys(s)
ColumnKeys(s) == IF presets = <<>> THEN {} ELSE preset_names(s)

\* width_of_values(settings.keys()).
width_of_parameters(ss) == Max({Len(k) : k \in DOMAIN ss})

\* max("input".len(), width_of_values(settings.values())).
width_of_input_values(ss) == max(Len("input"), Max({Len(ss[k]) : k \in DOMAIN ss}))

\* width_per_preset: the widest of the preset's name and its values.
width_per_preset(sp) ==
    collected([name \in DOMAIN sp |->
                  max(Len(name), Max({Len(sp[name][p]) : p \in DOMAIN sp[name]}))])

\* What a preset column prints for a parameter: its value, or the default.
cell(sp, name, param) ==
    IF param \in DOMAIN sp[name] THEN sp[name][param] ELSE "-"

\* The header row of lines 186-197, before add_finished_row; wp, wi and w
\* are the three widths.
header_row(wp, wi, w, cols) ==
    repeat(" ", wp) \o " | " \o "input" \o repeat(" ", wi - Len("input"))
    \o concat([i \in 1..Len(cols) |->
                  " | " \o cols[i] \o repeat(" ", w[cols[i]] - Len(cols[i]))], 1)

\* One pass of the loop of lines 204-239, before add_finished_row.
data_row(ss, sp, wp, wi, w, cols, encoder_param) ==
    encoder_param \o repeat(" ", wp - Len(encoder_param))
    \o " | "
    \o (IF use_color THEN bold(ss[encoder_param]) ELSE ss[encoder_param])
    \o repeat(" ", wi - Len(ss[encoder_param]))
    \o concat([i \in 1..Len(cols) |->
                  " | "
                  \o (IF cell(sp, cols[i], encoder_param) = ss[encoder_param] /\ use_color
                      THEN green(cell(sp, cols[i], encoder_param))
                      ELSE cell(sp, cols[i], encoder_param))
                  \o repeat(" ", w[cols[i]] - Len(cell(sp, cols[i], encoder_param)))], 1)

\* A usize padding below zero: the subtraction of line 226 for a value wider
\* than its column (the others are bounded by the widths' own maxima).
padding_overflows(ss, sp, w) ==
    \E name \in DOMAIN sp, param \in DOMAIN ss :
        w[name] < Len(cell(sp, name, param))

\* The first `table`: the header row, finished.
table_head(wp, wi, w, cols) == header_row(wp, wi, w, cols) \o "\n"

\* The rows of the table, each finished by add_finished_row; rows is the
\* order in which `settings` is iterated and cols that of `presets`.
table_rows(ss, sp, wp, wi, w, rows, cols) ==
    << table_head(wp, wi, w, cols),
       repeat("-", Len(table_head(wp, wi, w, cols)) - 1) \o "\n" >>
    \o [i \in 1..Len(rows) |-> data_row(ss, sp, wp, wi, w, cols, rows[i]) \o "\n"]

\* The String returned: the finished rows t, one after the other.
returned_table(t, rows) ==
    [result |-> Text(concat(t, 1)), table |-> [rows |-> t, params |-> rows]]

\* The table once the two HashMaps ss and sp are built (lines 168-241).
render(ss, sp, rows, cols) ==
    IF DOMAIN ss = {}
    THEN [result |-> Panic("One or more element required"), table |-> NoTable]
    ELSE IF \E name \in DOMAIN sp : DOMAIN sp[name] = {}
    THEN [result |-> Panic("Preset must have values"), table |-> NoTable]
    ELSE IF padding_overflows(ss, sp, width_per_preset(sp))
    THEN [result |-> Panic("attempt to subtract with overflow"), table |-> NoTable]
    ELSE returned_table(table_rows(ss, sp, width_of_parameters(ss),
                                   width_of_input_values(ss),
                                   width_per_preset(sp), rows, cols), rows)

\* Determiner::partially_matching_presets: the value returned (or the
\* panic) and the table as built.
partially_matching_presets(s, rows, cols) ==
    IF presets = <<>>
    THEN [result |-> Panic("There must be a preset"), table |-> NoTable]
    ELSE render(shown_settings(s),
                shown_presets(preset_names(s), preset_enc_params(s)),
                rows, cols)

(***************************************************************************)
(* determine_preset and determine_preset_from_str.                         *)
(***************************************************************************)
\* Mutant: the matching names, last declared first.
matching_presets_reversed(s) ==
    LET hit == SelectSeq([i \in 1..Len(presets) |-> i],
                         LAMBDA i : preset_matches(s, presets[i][2]))
    IN  [n \in 1..Len(hit) |-> presets[hit[Len(hit) + 1 - n]][1]]

\* The local matching_presets: the names of the presets that match, in
\* catalog order.
matching_presets(s) ==
    LET hit == SelectSeq([i \in 1..Len(presets) |-> i],
                         LAMBDA i : preset_matches(s, presets[i][2]))
    IN  [n \in 1..Len(hit) |-> presets[hit[n]][1]]

\* The format! of line 270 around the table t, or the panic that ended
\* partially_matching_presets.
no_match_verbose(m, t) ==
    [result |-> IF t.result.kind = "Panic"
                THEN t.result
                ELSE Err("No matching presets found. Partial matches:\n\n",
                         t.result.arg),
     matching |-> m, table |-> t.table]

\* The match of lines 269-277 on the number of matching presets m.
match_on_len(s, m, rows, cols) ==
    IF Len(m) = 0 /\ verbose > 0
    THEN no_match_verbose(m, partially_matching_presets(s, rows, cols))
    ELSE IF Len(m) = 0
    THEN [result |-> Err("No matching presets found. Closest matches:\n:",
                         DebugRanking(closest_matches(s))),
          matching |-> m, table |-> NoTable]
    ELSE IF Len(m) = 1
    THEN [result |-> Ok(m[1]), matching |-> m, table |-> NoTable]
    ELSE [result |-> Err("Multiple matching presets found: ", DebugNames(m)),
          matching |-> m, table |-> NoTable]

\* Determiner::determine_preset.
determine_preset(s, rows, cols) ==
    match_on_len(s, matching_presets(s), rows, cols)

\* HashMap::remove.
remove(m, k) == [x \in (DOMAIN m) \ {k} |-> m[x]]

\* Mutant: lookahead-slices is rewritten whatever its value.
fix_lookahead_slices_any(m) ==
    IF "lookahead-slices" \in DOMAIN m
    THEN [m EXCEPT !["lookahead-slices"] = "1"]
    ELSE m

\* The match on get_mut("lookahead-slices") of lines 106-109.
fix_lookahead_slices(m) ==
    IF "lookahead-slices" \in DOMAIN m /\ m["lookahead-slices"] = "0"
    THEN [m EXCEPT !["lookahead-slices"] = "1"]
    ELSE m

\* encoder_settings as handed to determine_preset (lines 102-109).
encoder_settings(inp) == fix_lookahead_slices(remove(parse_string(inp), "me"))

(***************************************************************************)
(* Inputs.                                                                 *)
(***************************************************************************)
MaxVerbose == 2
MaxKeys    == 2
MaxTokens  == 2
MaxCalls   == 2

ColorModes == {"Auto", "Always", "Never"}

\* Observed parameters and the values tried for each: two catalog
\* parameters, with values some presets have and others lack, and one
\* parameter ("crf") no preset has.
PoolValues ==
    "ctu" :> {"32", "64"} @@ "min-cu-size" :> {"8", "16"} @@ "crf" :> {"23.0"}

SettingsPool ==
    UNION {{m \in [K -> UNION {PoolValues[k] : k \in K}] :
               \A k \in K : m[k] \in PoolValues[k]} :
           K \in {K \in SUBSET DOMAIN PoolValues : Cardinality(K) <= MaxKeys}}

\* Tokens of input strings.
TokenPool ==
    { <<"ctu", "=", "32">>, <<"min-cu-size", "=", "8">>, <<"bframes", "=", "8">>,
      <<"me", "=", "3">>, <<"lookahead-slices", "=", "0">>,
      <<"lookahead-slices", "=", "00">>, <<"a", "=", "b", "=", "c">>,
      <<"rdLevel", "=">>, <<"wpp">> }

\* The other three inputs of test_encoding_params (lines 310-314).
TestInputs ==
    { <<"ctu", "=", "32", " ", "min-cu-size", "=", "8">>,
      <<"ctu", "=", "32", " ", "min-cu-size", "=", "8", " ", "bframes", "=", "8">>,
      <<"ctu", "=", "32">> }

RECURSIVE join(_, _)
\* The tokens from the i-th on, separated by single spaces.
join(toks, i) ==
    IF i > Len(toks) THEN <<>>
    ELSE (IF i > 1 THEN <<" ">> ELSE <<>>) \o toks[i] \o join(toks, i + 1)

InputPool ==
    {TestDump} \cup TestInputs \cup
    {join(toks, 1) : toks \in UNION {[1..n -> TokenPool] : n \in 0..MaxTokens}}

(***************************************************************************)
(* The state machine.                                                      *)
(***************************************************************************)
Init ==
    /\ \/ /\ presets = NewPresets            \* Determiner::new(cli)
          /\ verbose \in 0..MaxVerbose
          /\ color \in ColorModes
       \/ /\ presets = DefaultPresets        \* Determiner::default()
          /\ verbose = 0
          /\ color = "Auto"
    /\ tty \in (IF color = "Auto" THEN BOOLEAN ELSE {FALSE})  \* read under Auto only
    /\ op = "idle"
    /\ input = <<>>
    /\ settings = EmptyMap
    /\ matching = <<>>
    /\ table = NoTable
    /\ result = NoValue
    /\ calls = 0

\* A call of operation o: every method takes &self, so the Determiner is
\* left as it is.
Returns(o, inp, s, m, t, r) ==
    /\ op' = o
    /\ input' = inp
    /\ settings' = s
    /\ matching' = m
    /\ table' = t
    /\ result' = r
    /\ calls' = calls + 1
    /\ UNCHANGED <<presets, verbose, color, tty>>

RunParseString(inp) ==
    Returns("parse_string", inp, EmptyMap, <<>>, NoTable, MapOf(parse_string(inp)))

RunClosestMatches(s) ==
    Returns("closest_matches", <<>>, s, <<>>, NoTable, VecOf(closest_matches(s)))

RunPartiallyMatchingPresets(s) ==
    \E rows \in IterOrders(RowKeys(s)), cols \in IterOrders(ColumnKeys(s)) :
        \E out \in {partially_matching_presets(s, rows, cols)} :
            Returns("partially_matching_presets", <<>>, s, <<>>, out.table, out.result)

\* determine_preset builds (and iterates) the two HashMaps only on its
\* way through partially_matching_presets.
RunDeterminePreset(o, inp, s) ==
    IF Len(matching_presets(s)) = 0 /\ verbose > 0
    THEN \E rows \in IterOrders(RowKeys(s)), cols \in IterOrders(ColumnKeys(s)) :
            \E out \in {determine_preset(s, rows, cols)} :
                Returns(o, inp, s, out.matching, out.table, out.result)
    ELSE \E out \in {determine_preset(s, <<>>, <<>>)} :
            Returns(o, inp, s, out.matching, out.table, out.result)

\* determine_preset_from_str: the settings are parsed and normalized, then
\* handed to determine_preset.
RunDeterminePresetFromStr(inp) ==
    \E s \in {encoder_settings(inp)} :
        RunDeterminePreset("determine_preset_from_str", inp, s)

Run(o, inp, s) ==
    CASE o = "parse_string"               -> RunParseString(inp)
      [] o = "closest_matches"            -> RunClosestMatches(s)
      [] o = "partially_matching_presets" -> RunPartiallyMatchingPresets(s)
      [] o = "determine_preset"           -> RunDeterminePreset(o, <<>>, s)
      [] o = "determine_preset_from_str"  -> RunDeterminePresetFromStr(inp)

ParseString(inp) == calls = 0 /\ Run("parse_string", inp, EmptyMap)

DeterminePresetFromStr(inp) == calls = 0 /\ Run("determine_preset_from_str", inp, EmptyMap)

DeterminePreset(s) == calls = 0 /\ Run("determine_preset", <<>>, s)

ClosestMatches(s) == calls = 0 /\ Run("closest_matches", <<>>, s)

PartiallyMatchingPresets(s) == calls = 0 /\ Run("partially_matching_presets", <<>>, s)

\* The caller makes the same call again.
Repeat ==
    /\ calls \in 1..(MaxCalls - 1)
    /\ Run(op, input, settings)

\* The caller calls determine_preset again with one more observed pair.
Extend(k, v) ==
    /\ calls \in 1..(MaxCalls - 1)
    /\ op = "determine_preset"
    /\ k \notin DOMAIN settings
    /\ \E s \in {(k :> v) @@ settings} : Run("determine_preset", <<>>, s)

\* The caller drops the result.
Drop ==
    /\ calls > 0
    /\ op' = "idle"
    /\ input' = <<>>
    /\ settings' = EmptyMap
    /\ matching' = <<>>
    /\ table' = NoTable
    /\ result' = NoValue
    /\ calls' = 0
    /\ UNCHANGED <<presets, verbose, color, tty>>

Next ==
    \/ \E inp \in InputPool : ParseString(inp)
    \/ \E inp \in InputPool : DeterminePresetFromStr(inp)
    \/ \E s \in SettingsPool : DeterminePreset(s)
    \/ \E s \in SettingsPool : ClosestMatches(s)
    \/ \E s \in SettingsPool : PartiallyMatchingPresets(s)
    \/ Repeat
    \/ \E k \in DOMAIN PoolValues : \E v \in PoolValues[k] : Extend(k, v)
    \/ Drop

Spec == Init /\ [][Next]_vars

(***************************************************************************)
(* Properties.                                                             *)
(***************************************************************************)
\* The calls that end in determine_preset.
Determines == op \in {"determine_preset", "determine_preset_from_str"}

\* The Matcher's rule, stated on its own: the preset contradicts no observed
\* pair.
PassesRule(observed, preset) ==
    \A k \in DOMAIN observed : k \in DOMAIN preset => preset[k] = observed[k]

\* The catalog positions of the presets that pass the rule for the settings.
Passing == {i \in 1..Len(presets) : PassesRule(settings, presets[i][2])}

NoMatchTexts ==
    { "No matching presets found. Partial matches:\n\n",
      "No matching presets found. Closest matches:\n:" }

\* C1: determine_preset returns exactly one of three outcomes, as the
\* Matcher's rule decides: Ok(name) iff exactly one preset passes, and name is
\* that preset; the "No matching presets found" error iff none passes; the
\* "Multiple matching presets found" error iff two or more pass; and every
\* name collected as matching passes preset_matches.
C1_Outcomes ==
    Determines =>
        /\ result.kind \in {"Ok", "Err"}
        /\ (result.kind = "Ok") <=> (Cardinality(Passing) = 1)
        /\ result.kind = "Ok" => \E i \in Passing : result.arg = presets[i][1]
        /\ (result.kind = "Err" /\ result.fmt \in NoMatchTexts) <=> (Passing = {})
        /\ (result.kind = "Err" /\ result.fmt = "Multiple matching presets found: ")
               <=> (Cardinality(Passing) >= 2)
        /\ \A n \in 1..Len(matching) :
               \E i \in 1..Len(presets) :
                   /\ presets[i][1] = matching[n]
                   /\ preset_matches(settings, presets[i][2])

\* A call that found the one preset two observed pairs leave.
C1_Witness ==
    /\ op = "determine_preset"
    /\ settings = ("ctu" :> "32" @@ "min-cu-size" :> "8")
    /\ result = Ok("superfast")

\* The names of the passing presets, in catalog declaration order.
PassingNames ==
    [n \in 1..Cardinality(Passing) |->
        presets[CHOOSE i \in Passing :
                    Cardinality({j \in Passing : j < i}) = n - 1][1]]

\* C2: when two or more presets match, the "Multiple matching presets found"
\* error lists exactly the names of the matching presets, each once, in
\* catalog declaration order; with the ten-preset catalog, the input "ctu=32"
\* reports ["ultrafast", "superfast"].
C2_AmbiguousInCatalogOrder ==
    /\ (Determines /\ Cardinality(Passing) >= 2) =>
           /\ matching = PassingNames
           /\ result = Err("Multiple matching presets found: ", DebugNames(PassingNames))
    /\ (op = "determine_preset_from_str" /\ input = <<"ctu", "=", "32">>
           /\ presets = NewPresets) =>
           Message(result) = "Multiple matching presets found: [\"ultrafast\", \"superfast\"]"

\* "ctu=32" was given to the Determiner with the ten-preset catalog, and two
\* presets matched.
C2_Witness ==
    /\ op = "determine_preset_from_str"
    /\ input = <<"ctu", "=", "32">>
    /\ presets = NewPresets
    /\ Len(matching) = 2
    /\ result.kind = "Err"

\* The number of observed keys whose value the preset maps identically.
Agreement(observed, preset) ==
    Cardinality({k \in DOMAIN observed : k \in DOMAIN preset /\ preset[k] = observed[k]})

\* Where the catalog declares the preset called name.
CatalogIndex(name) == CHOOSE i \in 1..Len(presets) : presets[i][1] = name

\* C3: closest_matches returns one (name, count) entry per catalog preset,
\* count being the number of observed keys whose value the preset maps
\* identically, by descending count, presets tied on count appearing in the
\* reverse of their catalog declaration order.
C3_Ranking ==
    op = "closest_matches" =>
        /\ Len(result.vec) = Len(presets)
        /\ \A i \in 1..Len(presets) :
               Cardinality({p \in 1..Len(result.vec) :
                               result.vec[p][1] = presets[i][1]}) = 1
        /\ \A p \in 1..Len(result.vec) :
               result.vec[p][2] = Agreement(settings, presets[CatalogIndex(result.vec[p][1])][2])
        /\ \A p, q \in 1..Len(result.vec) :
               p < q =>
                   \/ result.vec[p][2] > result.vec[q][2]
                   \/ /\ result.vec[p][2] = result.vec[q][2]
                      /\ CatalogIndex(result.vec[p][1]) > CatalogIndex(result.vec[q][1])

\* A ranking with both a tie and a strict descent: superfast agrees twice,
\* the other nine presets once.
C3_Witness ==
    /\ op = "closest_matches"
    /\ presets = NewPresets
    /\ settings = ("ctu" :> "32" @@ "min-cu-size" :> "8")
    /\ result.vec[1] = <<"superfast", 2>>
    /\ result.vec[2] = <<"placebo", 1>>
    /\ result.vec[10] = <<"ultrafast", 1>>

HasEq(tok) == \E i \in 1..Len(tok) : tok[i] = "="

FirstEq(tok) ==
    CHOOSE i \in 1..Len(tok) : tok[i] = "=" /\ \A j \in 1..(i - 1) : tok[j] # "="

\* The text of a token before its first '=' and all of its text after it.
BeforeFirstEq(tok) == concat(SubSeq(tok, 1, FirstEq(tok) - 1), 1)
AfterFirstEq(tok)  == concat(SubSeq(tok, FirstEq(tok) + 1, Len(tok)), 1)

\* C4 (as claimed): parse_string splits each whitespace-separated token on
\* its first '=' only: the name is the text before it, the value all of the
\* text after it (so "a=b=c" gives "a" the value "b=c"); tokens without '='
\* are discarded; a later token replaces an earlier one of the same name.
C4_SplitsOnFirstEqOnly ==
    op = "parse_string" =>
        LET toks   == split_whitespace(input)
            withEq == {i \in 1..Len(toks) : HasEq(toks[i])}
        IN  /\ DOMAIN result.map = {BeforeFirstEq(toks[i]) : i \in withEq}
            /\ \A i \in withEq :
                   (\A j \in withEq :
                       BeforeFirstEq(toks[j]) = BeforeFirstEq(toks[i]) => j <= i)
                   => result.map[BeforeFirstEq(toks[i])] = AfterFirstEq(toks[i])

\* settings' is settings with one more pair, under a key settings lacks.
ExtendedByOnePair ==
    /\ \E k \in DOMAIN settings' :
           /\ k \notin DOMAIN settings
           /\ DOMAIN settings' = (DOMAIN settings) \cup {k}
    /\ \A x \in DOMAIN settings : settings'[x] = settings[x]

Names(v) == {v[i] : i \in 1..Len(v)}

\* C5: matching is monotonic: when determine_preset is called again with one
\* more observed pair (under a key not observed before), the presets that
\* preset_matches accepts are among those it accepted before.
C5_Monotonic ==
    [][(op = "determine_preset" /\ op' = "determine_preset" /\ ExtendedByOnePair)
          => Names(matching') \subseteq Names(matching)]_vars

\* A second call, with a third pair (first calls observe at most MaxKeys),
\* that still matches one preset.
C5_Witness ==
    /\ op = "determine_preset"
    /\ calls = 2
    /\ Cardinality(DOMAIN settings) = MaxKeys + 1
    /\ Len(matching) = 1

\* C6: determine_preset_from_str hands determine_preset the tokenized map
\* changed in two ways only: "me" is removed whatever its value, and
\* "lookahead-slices" is rewritten to "1" iff its value is exactly "0"; every
\* other key stays, with its value, and no key is added.  With the ten-preset
\* catalog the flag dump of the test then resolves to "veryslow".
C6_Normalization ==
    op = "determine_preset_from_str" =>
        /\ DOMAIN settings = (DOMAIN parse_string(input)) \ {"me"}
        /\ \A k \in DOMAIN settings :
               settings[k] = IF k = "lookahead-slices" /\ parse_string(input)[k] = "0"
                             THEN "1"
                             ELSE parse_string(input)[k]
        /\ (input = TestDump /\ presets = NewPresets) => result = Ok("veryslow")

\* The flag dump, with its numeric "me" and its "lookahead-slices=0", was
\* resolved.
C6_Witness ==
    /\ op = "determine_preset_from_str"
    /\ input = TestDump
    /\ parse_string(input)["me"] = "3"
    /\ parse_string(input)["lookahead-slices"] = "0"
    /\ settings["lookahead-slices"] = "1"
    /\ result = Ok("veryslow")

\* C7 (as claimed): calling determine_preset again on the same settings, with
\* the same Determiner, returns the identical result (the same name, or the
\* same error text character for character) at every verbosity, and leaves
\* the Determiner as it was.
C7_RepeatedCallIdentical ==
    [][(Determines /\ op' = op /\ input' = input /\ settings' = settings)
          => /\ result' = result
             /\ <<presets, verbose, color>>' = <<presets, verbose, color>>]_vars

\* The parameter names of the reference preset (the catalog's first).
ReferenceParams == DOMAIN presets[1][2]

\* C8 (as claimed): partially_matching_presets never fails; when the
\* observed map is empty, or shares no key with the reference preset, it
\* returns the header row and the separator only.
C8_NeverFails ==
    (op = "partially_matching_presets" /\ presets # <<>>) =>
        /\ result.kind = "String"
        /\ (DOMAIN settings) \cap ReferenceParams = {} => Len(table.rows) = 2

\* The terse error of the test for "ctu=32 min-cu-size=8 bframes=8".
TestRanking ==
    "[(\"placebo\", 2), (\"veryslow\", 2), (\"slower\", 2), (\"superfast\", 2), "
    \o "(\"slow\", 1), (\"medium\", 1), (\"fast\", 1), (\"faster\", 1), "
    \o "(\"veryfast\", 1), (\"ultrafast\", 1)]"

\* C9 (as claimed): the Determiner built by Determiner::default() (verbosity
\* 0) answers "ctu=32 min-cu-size=8" with Ok("superfast") and
\* "ctu=32 min-cu-size=8 bframes=8" with the no-match error that ranks the ten
\* presets as the test lists them.
C9_DefaultDeterminer ==
    (op = "determine_preset_from_str" /\ presets = DefaultPresets /\ verbose = 0) =>
        /\ input = <<"ctu", "=", "32", " ", "min-cu-size", "=", "8">> =>
               result = Ok("superfast")
        /\ input = <<"ctu", "=", "32", " ", "min-cu-size", "=", "8", " ",
                     "bframes", "=", "8">> =>
               result = Err("No matching presets found. Closest matches:\n:", TestRanking)

\* C10 (as claimed): the diff table has one data row per displayed parameter,
\* the displayed parameters being the observed keys that the reference preset
\* has when verbosity is below 2, and the union of the observed keys and the
\* preset's parameters when it is 2 or more.
C10_RowPerDisplayedParameter ==
    (op = "partially_matching_presets" /\ result.kind = "String") =>
        LET displayed == IF verbose < 2
                         THEN (DOMAIN settings) \cap ReferenceParams
                         ELSE (DOMAIN settings) \cup ReferenceParams
        IN  /\ Len(table.rows) = 2 + Cardinality(displayed)
            /\ Names(table.params) = displayed

\* The branch of line 270: a call of determine_preset (direct or from a
\* string) that found no matching preset at verbosity 1 or more, with a
\* catalog that is not empty and whose presets all have the parameter names
\* of the first.
DiffBranch ==
    /\ Determines
    /\ presets # <<>>
    /\ \A i \in 1..Len(presets) : DOMAIN presets[i][2] = ReferenceParams
    /\ verbose >= 1
    /\ matching = <<>>

\* The panic messages of partially_matching_presets that the branch could
\* meet: the two expects and the padding subtraction.
DiffPanics ==
    { "One or more element required", "Preset must have values",
      "attempt to subtract with overflow" }

\* C11: whenever determine_preset reaches the diff-rendering branch, the
\* call of partially_matching_presets ends in none of its panics (the expect
\* of width_of_values, the expect "Preset must have values", an underflowing
\* padding subtraction): the observed map has a key in common with the
\* reference preset, and the error returned carries the table, with a header
\* row, a separator and at least one data row.
C11_DiffBranchNeverPanics ==
    DiffBranch =>
        /\ (DOMAIN settings) \cap ReferenceParams # {}
        /\ ~(result.kind = "Panic" /\ result.fmt \in DiffPanics)
        /\ result.kind = "Err"
        /\ result.fmt = "No matching presets found. Partial matches:\n\n"
        /\ Len(table.rows) >= 3
        /\ result.arg = concat(table.rows, 1)

\* The branch reached at verbosity 2 with an observed key no preset has
\* ("a", from the token a=b=c) next to one that rules every preset out: the
\* table has a data row for each, the first filled with the "-" default.
C11_Witness ==
    /\ DiffBranch
    /\ verbose = 2
    /\ op = "determine_preset_from_str"
    /\ "a" \in DOMAIN settings
    /\ Cardinality(DOMAIN settings) = 2
    /\ result.kind = "Err"
    /\ Len(table.rows) = 4

====
